---- MODULE Spec2Model ----
(***************************************************************************)
(* A model of funsor's dispatch registries (funsor/registry.py) and of the *)
(* optimizer pass functions (funsor/engine/optimizer.py).                  *)
(*                                                                         *)
(* One registry object is modelled at a time: `cls` is its class, chosen   *)
(* at construction; `registry` and `cache` are its two instance fields.    *)
(***************************************************************************)
EXTENDS Integers, Sequences, FiniteSets, TLC

VARIABLES
    cls,        \* class of the registry object: "UnaryRegistry" or "BinaryRegistry"
    registry,   \* self._registry : key -> (class or class pair -> handler)
    cache,      \* self._cache    : (key, type(x)[, type(y)]) -> handler or NotImplemented
    seen,       \* outcomes of the __call__s made since the last register, per call key
    out,        \* what the last register / __call__ did (returned, raised)
    optPc,      \* optimize_path: "idle", "call" (entered) or "done" (returned or raised)
    optArgs,    \* optimize_path's arguments (op, arg, reduce_dims)
    optRet,     \* what optimize_path returned or raised
    pipePc,     \* apply_optimizer: the pass whose with-block is next, "done", "raised" or "idle"
    pipeX,      \* apply_optimizer's variable x
    pipeExc,    \* the exception that left apply_optimizer, or "none"
    pipeRan,    \* the with-blocks completed so far: pass, the tree given, the tree obtained
    thr         \* per thread: the register / __call__ it is inside, its position and locals

regVars == <<cls, registry, cache, seen, out>>
optVars == <<optPc, optArgs, optRet>>
pipeVars == <<pipePc, pipeX, pipeExc, pipeRan>>
vars == <<cls, registry, cache, seen, out, optPc, optArgs, optRet,
          pipePc, pipeX, pipeExc, pipeRan, thr>>

----------------------------------------------------------------------------
(* Bounds of the model *)

\* at most this many handlers are held by the registry at once
MaxHandlers == 2
\* at most this many distinct (key, operand types) are dispatched between two registrations
MaxCalls == 2
\* at most this many operands in a Finitary handed to optimize_path
MaxOperands == 2

----------------------------------------------------------------------------
(* The inputs: keys, classes, handlers *)

\* "OpX" is an operation used as the key (a function, a string: not a tuple);
\* "KeyT" is a key that is a Python tuple.
Keys == {"OpX", "KeyT"}
TupleKeys == {"KeyT"}

\* The classes: object <- Base <- Mid <- Leaf, and object <- Other.
Types == {"object", "Base", "Mid", "Leaf", "Other"}

\* the classes the unary registry is exercised with: the chain Base <- Mid <- Leaf
UnaryTypes == {"Base", "Mid", "Leaf"}

\* the class pairs handlers are registered for in the binary registry, and the
\* operand class pairs it is called with (Base and Other are unrelated classes)
BinaryPairs == {<<"Base", "Other">>, <<"Other", "Base">>, <<"Base", "object">>,
                <<"object", "Other">>, <<"Mid", "object">>}
BinaryOperands == {<<"Base", "Other">>, <<"Mid", "Other">>}

Handlers == {"h1", "h2"}

NotImplemented == "NotImplemented"

\* the empty dict
Empty == << >>

\* d[k] = v
Put(d, k, v) == [x \in (DOMAIN d) \cup {k} |-> IF x = k THEN v ELSE d[x]]

\* inspect.getmro(cls): the class itself first, object last
getmro(c) ==
    CASE c = "object" -> <<"object">>
      [] c = "Base"   -> <<"Base", "object">>
      [] c = "Mid"    -> <<"Mid", "Base", "object">>
      [] c = "Leaf"   -> <<"Leaf", "Mid", "Base", "object">>
      [] c = "Other"  -> <<"Other", "object">>

\* a mis-written read: stores an empty dict whether or not the key is there
Touch_reset(reg, key) == [x \in (DOMAIN reg) \cup {key} |-> IF x = key THEN << >> ELSE reg[x]]

\* defaultdict(dict): reading a missing key yields (and stores) an empty dict
Lookup(reg, key) == IF key \in DOMAIN reg THEN reg[key] ELSE Empty
Touch(reg, key) == IF key \in DOMAIN reg THEN reg ELSE Put(reg, key, Empty)

\* number of handlers held, over all keys
RECURSIVE SumOver(_, _)
SumOver(reg, ks) ==
    IF ks = {} THEN 0
    ELSE LET k == CHOOSE x \in ks : TRUE
         IN  Cardinality(DOMAIN reg[k]) + SumOver(reg, ks \ {k})
NumHandlers(reg) == SumOver(reg, DOMAIN reg)

Min(S) == CHOOSE x \in S : \A y \in S : x <= y

----------------------------------------------------------------------------
(* UnaryRegistry *)

UnaryStore_keepFirst(reg, key, c, fn) ==
    IF c \in DOMAIN Lookup(reg, key) THEN reg
    ELSE Put(reg, key, Put(Lookup(reg, key), c, fn))

\* a mis-written store: one table for all keys, the handler put under each
UnaryStore_shared(reg, key, c, fn) ==
    [k \in (DOMAIN reg) \cup {key} |-> Put(Lookup(reg, k), c, fn)]

\* self._registry[key][cls] = fn
UnaryStore(reg, key, c, fn) == Put(reg, key, Put(Lookup(reg, key), c, fn))

ClearCache_kept(ch) == ch

\* self._cache.clear()
ClearCache(ch) == Empty

UnaryDispatch_rootFirst(reg, key, c) ==
    LET r == Lookup(reg, key)
        mro == getmro(c)
        hits == {i \in 1..Len(mro) : mro[i] \in DOMAIN r}
    IN  IF r = Empty THEN NotImplemented
        ELSE IF hits = {} THEN NotImplemented
        ELSE r[mro[CHOOSE i \in hits : \A j \in hits : j <= i]]

\* UnaryRegistry._dispatch: the handler of the first class of the MRO that has one
UnaryDispatch(reg, key, c) ==
    LET r == Lookup(reg, key)
        mro == getmro(c)
        hits == {i \in 1..Len(mro) : mro[i] \in DOMAIN r}
    IN  IF r = Empty THEN NotImplemented
        ELSE IF hits = {} THEN NotImplemented
        ELSE r[mro[Min(hits)]]

\* the value __call__ works with: the cached one, or the fresh resolution
UnaryResolve(reg, ch, key, c) ==
    IF <<key, c>> \in DOMAIN ch THEN ch[<<key, c>>] ELSE UnaryDispatch(reg, key, c)

Outcome_unchecked(fn) == [fn |-> fn, exc |-> "none"]

\* if fn is NotImplemented: raise NotImplementedError; return fn(x, ...):
\* the handler called, or the exception raised
Outcome(fn) ==
    IF fn = NotImplemented THEN [fn |-> "none", exc |-> "NotImplementedError"]
    ELSE [fn |-> fn, exc |-> "none"]

Note(sn, ck, o) == Put(sn, ck, (IF ck \in DOMAIN sn THEN sn[ck] ELSE {}) \cup {o})

CallAllowed(ck) == ck \in DOMAIN seen \/ Cardinality(DOMAIN seen) < MaxCalls

UnaryRegister ==
    /\ cls = "UnaryRegistry"
    /\ \E key \in Keys, c \in UnaryTypes, fn \in Handlers :
        LET old == Lookup(registry, key) IN
        /\ c \in DOMAIN old \/ NumHandlers(registry) < MaxHandlers
        /\ registry' = UnaryStore(registry, key, c, fn)
        /\ cache' = ClearCache(cache)
        /\ seen' = Empty
        /\ out' = [op |-> "register", key |-> key, args |-> <<c>>, fn |-> fn,
                   exc |-> "none", named |-> << >>, hit |-> FALSE,
                   prev |-> IF c \in DOMAIN old THEN old[c] ELSE "none",
                   dropped |-> cache]
    /\ UNCHANGED <<cls, optVars, pipeVars, thr>>

UnaryCall ==
    /\ cls = "UnaryRegistry"
    /\ \E key \in Keys, x \in UnaryTypes :
        LET ck == <<key, x>>
            hit == ck \in DOMAIN cache
            fn == UnaryResolve(registry, cache, key, x)
            o == Outcome(fn)
        IN
        /\ CallAllowed(ck)
        /\ registry' = IF hit THEN registry ELSE Touch(registry, key)
        /\ cache' = IF hit THEN cache ELSE Put(cache, ck, fn)
        /\ seen' = Note(seen, ck, o)
        /\ out' = [op |-> "call", key |-> key, args |-> <<x>>, fn |-> o.fn,
                   exc |-> o.exc, named |-> << >>, hit |-> hit,
                   prev |-> "none", dropped |-> Empty]
    /\ UNCHANGED <<cls, optVars, pipeVars, thr>>

----------------------------------------------------------------------------
(* BinaryRegistry *)

\* self._registry[key][cls1, cls2] = fn
BinaryStore(reg, key, c1, c2, fn) == Put(reg, key, Put(Lookup(reg, key), <<c1, c2>>, fn))

\* ranks = {s: i for i, s in enumerate(inspect.getmro(cls))}, for every class
ranks ==
    [c \in Types |->
        [s \in {getmro(c)[i] : i \in 1..Len(getmro(c))} |->
            (CHOOSE i \in 1..Len(getmro(c)) : getmro(c)[i] = s) - 1]]

\* matches = [match for match in itertools.product(ranks1, ranks2) if match in registry]
Matches(r, c1, c2) == {m \in (DOMAIN ranks[c1]) \X (DOMAIN ranks[c2]) : m \in DOMAIN r}

\* tuple comparison (a1, a2) <= (b1, b2)
LexLeq(a, b) == a[1] < b[1] \/ (a[1] = b[1] /\ a[2] <= b[2])

Match1_max(ms, c1, c2) ==
    CHOOSE m \in ms : \A n \in ms :
        LexLeq(<<ranks[c1][n[1]], ranks[c2][n[2]]>>, <<ranks[c1][m[1]], ranks[c2][m[2]]>>)

\* match1 = min(matches, key=lambda m: (ranks1[m[0]], ranks2[m[1]]))
Match1(ms, c1, c2) ==
    CHOOSE m \in ms : \A n \in ms :
        LexLeq(<<ranks[c1][m[1]], ranks[c2][m[2]]>>, <<ranks[c1][n[1]], ranks[c2][n[2]]>>)

\* match2 = min(matches, key=lambda m: (ranks2[m[1]], ranks1[m[0]]))
Match2(ms, c1, c2) ==
    CHOOSE m \in ms : \A n \in ms :
        LexLeq(<<ranks[c2][m[2]], ranks[c1][m[1]]>>, <<ranks[c2][n[2]], ranks[c1][n[1]]>>)

\* a mis-written message: names match2's left class and match1's right class
AmbiguousRaise_crossed(key, m1, m2) ==
    IF key \in TupleKeys
    THEN [fn |-> "none", exc |-> "ValueError", named |-> <<m2[1], m1[2], key>>]
    ELSE [fn |-> "none", exc |-> "TypeError", named |-> << >>]

\* raise ValueError('Ambiguous dispatch, please register {}'.format(
\*     (match1[0], match2[1]) + key)):
\* tuple + key is evaluated first and raises TypeError unless key is a tuple
AmbiguousRaise(key, m1, m2) ==
    IF key \in TupleKeys
    THEN [fn |-> "none", exc |-> "ValueError", named |-> <<m1[1], m2[2], key>>]
    ELSE [fn |-> "none", exc |-> "TypeError", named |-> << >>]

\* BinaryRegistry._dispatch: what it returns (fn) or raises (exc)
BinaryDispatch(reg, key, c1, c2) ==
    LET r == Lookup(reg, key)
        ms == Matches(r, c1, c2)
    IN  IF r = Empty THEN [fn |-> NotImplemented, exc |-> "none", named |-> << >>]
        ELSE IF ms = {} THEN [fn |-> NotImplemented, exc |-> "none", named |-> << >>]
        ELSE IF Match1(ms, c1, c2) # Match2(ms, c1, c2)
             THEN AmbiguousRaise(key, Match1(ms, c1, c2), Match2(ms, c1, c2))
        ELSE [fn |-> r[Match1(ms, c1, c2)], exc |-> "none", named |-> << >>]

BinaryCacheKey_noLeft(key, c1, c2) == <<key, c2, c2>>

\* the key __call__ reads and writes the cache under
BinaryCacheKey(key, c1, c2) == <<key, c1, c2>>

BinaryResolve_swapped(reg, ch, key, c1, c2) ==
    IF BinaryCacheKey(key, c1, c2) \in DOMAIN ch
    THEN [fn |-> ch[BinaryCacheKey(key, c1, c2)], exc |-> "none", named |-> << >>]
    ELSE BinaryDispatch(reg, key, c2, c1)

\* the value __call__ works with: the cached one, or the fresh resolution
BinaryResolve(reg, ch, key, c1, c2) ==
    IF BinaryCacheKey(key, c1, c2) \in DOMAIN ch
    THEN [fn |-> ch[BinaryCacheKey(key, c1, c2)], exc |-> "none", named |-> << >>]
    ELSE BinaryDispatch(reg, key, c1, c2)

BinaryRegister ==
    /\ cls = "BinaryRegistry"
    /\ \E key \in Keys, p \in BinaryPairs, fn \in Handlers :
        LET old == Lookup(registry, key) IN
        /\ p \in DOMAIN old \/ NumHandlers(registry) < MaxHandlers
        /\ registry' = BinaryStore(registry, key, p[1], p[2], fn)
        /\ cache' = ClearCache(cache)
        /\ seen' = Empty
        /\ out' = [op |-> "register", key |-> key, args |-> p, fn |-> fn,
                   exc |-> "none", named |-> << >>, hit |-> FALSE,
                   prev |-> IF p \in DOMAIN old THEN old[p] ELSE "none",
                   dropped |-> cache]
    /\ UNCHANGED <<cls, optVars, pipeVars, thr>>

BinaryCall ==
    /\ cls = "BinaryRegistry"
    /\ \E key \in Keys, xy \in BinaryOperands :
        \E d \in {BinaryResolve(registry, cache, key, xy[1], xy[2])} :
        LET ck == BinaryCacheKey(key, xy[1], xy[2])
            hit == ck \in DOMAIN cache
            o == IF d.exc # "none" THEN [fn |-> "none", exc |-> d.exc] ELSE Outcome(d.fn)
        IN
        /\ CallAllowed(<<key, xy[1], xy[2]>>)
        /\ registry' = IF hit THEN registry ELSE Touch(registry, key)
        /\ cache' = IF hit \/ d.exc # "none" THEN cache ELSE Put(cache, ck, d.fn)
        /\ seen' = Note(seen, <<key, xy[1], xy[2]>>, o)
        /\ out' = [op |-> "call", key |-> key, args |-> xy, fn |-> o.fn,
                   exc |-> o.exc, named |-> d.named, hit |-> hit,
                   prev |-> "none", dropped |-> Empty]
    /\ UNCHANGED <<cls, optVars, pipeVars, thr>>

\* the caller answers an ambiguity error: register(key, cls1, cls2)(fn) for the
\* pair the message of the last call names ('... please register (cls1, cls2, *key)')
RegisterNamed ==
    /\ cls = "BinaryRegistry"
    /\ out.op = "call"
    /\ out.exc = "ValueError"
    /\ NumHandlers(registry) < MaxHandlers + 1
    /\ \E fn \in Handlers :
        LET old == Lookup(registry, out.key)
            p == <<out.named[1], out.named[2]>>
        IN
        /\ registry' = BinaryStore(registry, out.key, p[1], p[2], fn)
        /\ cache' = ClearCache(cache)
        /\ seen' = Empty
        /\ out' = [op |-> "register", key |-> out.key, args |-> p, fn |-> fn,
                   exc |-> "none", named |-> << >>, hit |-> FALSE,
                   prev |-> IF p \in DOMAIN old THEN old[p] ELSE "none",
                   dropped |-> cache]
    /\ UNCHANGED <<cls, optVars, pipeVars, thr>>

----------------------------------------------------------------------------
(* register and __call__ of one registry run by several threads: each
   statement that reads or writes self._registry or self._cache is a step *)

Threads == {"t1", "t2"}

\* the key, the classes handlers are registered for and the operand classes
\* the threads use
RaceKeys == {"OpX"}
RaceRegisterArgs ==
    IF cls = "UnaryRegistry" THEN {<<"Base">>, <<"Mid">>}
    ELSE {<<"Base", "object">>, <<"Base", "Other">>}
RaceCallArgs ==
    IF cls = "UnaryRegistry" THEN {<<"Mid">>} ELSE {<<"Base", "Other">>}

\* a thread inside no call
IdleThread == [pc |-> "idle", key |-> "none", args |-> << >>, fn |-> "none"]

\* the registrations that have not yet written their handler
Pending == {t \in Threads : thr[t].pc = "write"}

\* self._registry[key][cls] = fn  /  self._registry[key][cls1, cls2] = fn
Store(reg, key, args, fn) ==
    IF cls = "UnaryRegistry" THEN UnaryStore(reg, key, args[1], fn)
    ELSE BinaryStore(reg, key, args[1], args[2], fn)

\* key, type(x)  /  key, type(x), type(y)
CacheKey(key, args) ==
    IF cls = "UnaryRegistry" THEN <<key, args[1]>>
    ELSE BinaryCacheKey(key, args[1], args[2])

\* self._dispatch(key, type(x)[, type(y)])
Dispatch(reg, key, args) ==
    IF cls = "UnaryRegistry"
    THEN [fn |-> UnaryDispatch(reg, key, args[1]), exc |-> "none", named |-> << >>]
    ELSE BinaryDispatch(reg, key, args[1], args[2])

\* a thread enters register(key, cls...)(fn)
RaceBeginRegister ==
    \E t \in Threads, key \in RaceKeys, args \in RaceRegisterArgs, fn \in Handlers :
        /\ thr[t].pc = "idle"
        /\ \/ args \in DOMAIN Lookup(registry, key)
           \/ NumHandlers(registry) + Cardinality(Pending) < MaxHandlers
        /\ thr' = [thr EXCEPT ![t] = [pc |-> "write", key |-> key, args |-> args, fn |-> fn]]
        /\ UNCHANGED <<regVars, optVars, pipeVars>>

\* self._registry[key][...] = fn
RaceWrite ==
    \E t \in Threads :
        /\ thr[t].pc = "write"
        /\ registry' = Store(registry, thr[t].key, thr[t].args, thr[t].fn)
        /\ thr' = [thr EXCEPT ![t].pc = "clear"]
        /\ UNCHANGED <<cls, cache, seen, out, optVars, pipeVars>>

\* self._cache.clear(); return fn
RaceClear ==
    \E t \in Threads :
        /\ thr[t].pc = "clear"
        /\ cache' = ClearCache(cache)
        /\ thr' = [thr EXCEPT ![t] = IdleThread]
        /\ UNCHANGED <<cls, registry, seen, out, optVars, pipeVars>>

\* a thread enters __call__(key, x[, y])
RaceBeginCall ==
    \E t \in Threads, key \in RaceKeys, args \in RaceCallArgs :
        /\ thr[t].pc = "idle"
        /\ thr' = [thr EXCEPT ![t] = [pc |-> "lookup", key |-> key, args |-> args, fn |-> "none"]]
        /\ UNCHANGED <<regVars, optVars, pipeVars>>

\* try: fn = self._cache[...] -- on a hit the call goes on to its end
\* (raise NotImplementedError or return fn(...)), on KeyError to the except branch
RaceLookup ==
    \E t \in Threads :
        /\ thr[t].pc = "lookup"
        /\ thr' = IF CacheKey(thr[t].key, thr[t].args) \in DOMAIN cache
                  THEN [thr EXCEPT ![t] = IdleThread]
                  ELSE [thr EXCEPT ![t].pc = "resolve"]
        /\ UNCHANGED <<regVars, optVars, pipeVars>>

\* except KeyError: fn = self._dispatch(...) -- reads self._registry[key]; an
\* exception of _dispatch ends the call
RaceResolve ==
    \E t \in Threads :
        /\ thr[t].pc = "resolve"
        /\ \E d \in {Dispatch(registry, thr[t].key, thr[t].args)} :
              thr' = IF d.exc # "none"
                     THEN [thr EXCEPT ![t] = IdleThread]
                     ELSE [thr EXCEPT ![t].pc = "store", ![t].fn = d.fn]
        /\ registry' = Touch(registry, thr[t].key)
        /\ UNCHANGED <<cls, cache, seen, out, optVars, pipeVars>>

\* self._cache[...] = fn, then the call's end (raise NotImplementedError or
\* return fn(...))
RaceStore ==
    \E t \in Threads :
        /\ thr[t].pc = "store"
        /\ cache' = Put(cache, CacheKey(thr[t].key, thr[t].args), thr[t].fn)
        /\ thr' = [thr EXCEPT ![t] = IdleThread]
        /\ UNCHANGED <<cls, registry, seen, out, optVars, pipeVars>>

----------------------------------------------------------------------------
(* The optimizer pass (funsor/engine/optimizer.py) *)

Dims == {"a", "b", "c"}
Ops == {"add", "mul"}

\* the absent value (None, or no value because of an exception)
NoTerm == [type |-> "None", op |-> "none", dims |-> {}, operands |-> << >>, reduce_dims |-> {}]

\* a leaf tensor with free dims ds
Tensor(ds) ==
    [type |-> "Tensor", op |-> "none", dims |-> ds, operands |-> << >>, reduce_dims |-> {}]

\* Finitary(op, operands): free dims are the union of the operands'
Finitary(op, operands) ==
    [type |-> "Finitary", op |-> op,
     dims |-> UNION {operands[i].dims : i \in DOMAIN operands},
     operands |-> operands, reduce_dims |-> {}]

\* Reduction(op, arg, reduce_dims): free dims are arg's without reduce_dims
Reduction(op, arg, rd) ==
    [type |-> "Reduction", op |-> op, dims |-> arg.dims \ rd,
     operands |-> <<arg>>, reduce_dims |-> rd]

\* the names bound at module level of optimizer.py when optimize_path runs
OptimizerGlobals ==
    {"Counter", "ops", "Binary", "Finitary", "Funsor", "Reduction", "Tensor", "Unitary",
     "OpRegistry", "greedy", "Desugar", "binary_to_finitary", "Deoptimize",
     "deoptimize_finitary", "deoptimize_reduce", "Optimize", "optimize_path",
     "apply_optimizer"}

\* the local names of optimize_path that are bound when the loop header
\* `for term in terms` is reached, and the names its iterable reads
LocalsAtLoop == {"op", "arg", "reduce_dims", "inputs", "size_dict"}
LoopReads == {"terms"}

\* Python's lookup of a name that is no builtin: a local, else a global, else NameError
NameBound(n, locals) == n \in locals \/ n \in OptimizerGlobals

\* the Finitary arguments tried: 1..MaxOperands tensors
TensorSeqs == UNION {[1..n -> {Tensor(ds) : ds \in SUBSET Dims}] : n \in 1..MaxOperands}
\* a chain product of three tensors X{a,b} * Y{b,c} * Z{c,d}
ChainX == Tensor({"a", "b"})
ChainY == Tensor({"b", "c"})
ChainZ == Tensor({"c", "d"})
ChainProduct == Finitary("mul", <<ChainX, ChainY, ChainZ>>)

ArgChoices ==
    {Tensor(ds) : ds \in SUBSET Dims}
        \cup {Finitary(f, ts) : f \in Ops, ts \in TensorSeqs}
        \cup {ChainProduct}

\* a mis-written early return: hands back arg itself, reduce_dims not reduced
OptimizeReflect_bare ==
    /\ optPc = "call"
    /\ optArgs.arg.type # "Finitary"
    /\ optRet' = [exc |-> "none", value |-> optArgs.arg]
    /\ optPc' = "done"
    /\ UNCHANGED <<optArgs, regVars, pipeVars, thr>>

\* if not isinstance(arg, Finitary): return Reduction(op, arg, reduce_dims)
OptimizeReflect ==
    /\ optPc = "call"
    /\ optArgs.arg.type # "Finitary"
    /\ optRet' = [exc |-> "none",
                  value |-> Reduction(optArgs.op, optArgs.arg, optArgs.reduce_dims)]
    /\ optPc' = "done"
    /\ UNCHANGED <<optArgs, regVars, pipeVars, thr>>

\* inputs = []; size_dict = {}; for term in terms: ...
\* `terms` is bound nowhere, so evaluating the loop's iterable raises NameError
OptimizeBuild ==
    /\ optPc = "call"
    /\ optArgs.arg.type = "Finitary"
    /\ \E n \in LoopReads : ~NameBound(n, LocalsAtLoop)
    /\ optRet' = [exc |-> "NameError", value |-> NoTerm]
    /\ optPc' = "done"
    /\ UNCHANGED <<optArgs, regVars, pipeVars, thr>>

----------------------------------------------------------------------------
(* The rewrite passes and apply_optimizer (funsor/engine/optimizer.py) *)

\* a node with one operand and a node with two (funsor.terms.Unary, Binary)
Unary(op, arg) ==
    [type |-> "Unary", op |-> op, dims |-> arg.dims,
     operands |-> <<arg>>, reduce_dims |-> {}]

Binary(op, lhs, rhs) ==
    [type |-> "Binary", op |-> op, dims |-> lhs.dims \cup rhs.dims,
     operands |-> <<lhs, rhs>>, reduce_dims |-> {}]

\* what a handler gives back: a value, or the exception it raised
Returned(t) == [exc |-> "none", value |-> t]
Raised(e) == [exc |-> e, value |-> NoTerm]

\* a mis-written handler: wraps the whole node instead of its operands
binary_to_finitary_wrapped(op, lhs, rhs) ==
    Finitary(op, <<IF rhs # NoTerm THEN Binary(op, lhs, rhs) ELSE Unary(op, lhs)>>)

\* a mis-written handler: operands in the opposite order
binary_to_finitary_swapped(op, lhs, rhs) ==
    Finitary(op, IF rhs # NoTerm THEN <<rhs, lhs>> ELSE <<lhs>>)

\* def binary_to_finitary(op, lhs, rhs=None):
\*     return Finitary(op, [lhs, rhs] if rhs is not None else [lhs])
\* (rhs = NoTerm stands for rhs = None)
binary_to_finitary(op, lhs, rhs) ==
    Finitary(op, IF rhs # NoTerm THEN <<lhs, rhs>> ELSE <<lhs>>)

\* def deoptimize_finitary(op, terms): pass       -- returns None
deoptimize_finitary(op, terms) == Returned(NoTerm)

\* def deoptimize_reduce(op, arg, reduce_dims): raise NotImplementedError("TODO")
deoptimize_reduce(op, arg, rd) == Raised("NotImplementedError")

\* optimize_path(op, arg, reduce_dims) as the Optimize pass calls it: the
\* Reduction again when arg is no Finitary, else the NameError of the loop header
optimize_path(op, arg, rd) ==
    IF arg.type # "Finitary"
    THEN Returned(Reduction(op, arg, rd))
    ELSE IF \E n \in LoopReads : ~NameBound(n, LocalsAtLoop)
    THEN Raised("NameError")
    ELSE Returned(NoTerm)

Passes == <<"Desugar", "Deoptimize", "Optimize">>

\* the node variants each pass has a handler registered for
\* (@Desugar.register(Unary, Binary), @Deoptimize.register(Finitary),
\*  @Deoptimize.register(Reduction), @Optimize.register(Reduction))
Registered(pass) ==
    CASE pass = "Desugar" -> {"Unary", "Binary"}
      [] pass = "Deoptimize" -> {"Finitary", "Reduction"}
      [] pass = "Optimize" -> {"Reduction"}

\* the handler of `pass` applied to a node it is registered for
Handle(pass, t) ==
    CASE pass = "Desugar" ->
            Returned(binary_to_finitary(t.op, t.operands[1],
                        IF t.type = "Binary" THEN t.operands[2] ELSE NoTerm))
      [] pass = "Deoptimize" /\ t.type = "Finitary" -> deoptimize_finitary(t.op, t.operands)
      [] pass = "Deoptimize" /\ t.type = "Reduction" ->
            deoptimize_reduce(t.op, t.operands[1], t.reduce_dims)
      [] pass = "Optimize" -> optimize_path(t.op, t.operands[1], t.reduce_dims)

\* node t with its operands replaced by ts
Rebuild(t, ts) ==
    CASE t.type = "Unary" -> Unary(t.op, ts[1])
      [] t.type = "Binary" -> Binary(t.op, ts[1], ts[2])
      [] t.type = "Finitary" -> Finitary(t.op, ts)
      [] t.type = "Reduction" -> Reduction(t.op, ts[1], t.reduce_dims)
      [] OTHER -> t

\* eval(x) inside `with pass():` -- the operands are rewritten first, then the
\* node itself by the pass's handler for its variant; a node without a handler
\* stays as it is; an exception of a handler ends the evaluation
RECURSIVE Rewrite(_, _)
Rewrite(pass, t) ==
    LET kids == [i \in DOMAIN t.operands |-> Rewrite(pass, t.operands[i])]
        bad == {i \in DOMAIN kids : kids[i].exc # "none"}
    IN  IF bad # {}
        THEN Raised(kids[CHOOSE i \in bad : \A j \in bad : i <= j].exc)
        ELSE LET node == Rebuild(t, [i \in DOMAIN kids |-> kids[i].value])
             IN  IF node.type \in Registered(pass) THEN Handle(pass, node)
                 ELSE Returned(node)

\* the trees apply_optimizer is given: two tensors, and nodes of every variant
\* over them, nested at most twice
PipeLeaves == {Tensor({"a", "b"}), Tensor({"b", "c"})}
PipeFlat ==
    PipeLeaves
        \cup {Unary(o, t) : o \in Ops, t \in PipeLeaves}
        \cup {Binary(o, l, r) : o \in Ops, l \in PipeLeaves, r \in PipeLeaves}
        \cup {Finitary(o, <<l, r>>) : o \in Ops, l \in PipeLeaves, r \in PipeLeaves}
PipeTrees ==
    PipeFlat
        \cup {Unary(o, t) : o \in Ops, t \in PipeFlat}
        \cup {Binary(o, l, r) : o \in Ops, l \in PipeFlat, r \in PipeLeaves}
        \cup {Finitary(o, <<l, r>>) : o \in Ops, l \in PipeFlat, r \in PipeLeaves}
        \cup UNION {{Reduction(o, t, rd) : rd \in SUBSET t.dims} :
                        o \in Ops, t \in PipeFlat}

\* with pass(): x = eval(x)
EvalUnder(pass, after) ==
    /\ \E r \in {Rewrite(pass, pipeX)} :
          IF r.exc = "none"
          THEN /\ pipeX' = r.value
               /\ pipeRan' = Append(pipeRan, [pass |-> pass, arg |-> pipeX, value |-> r.value])
               /\ pipePc' = after
               /\ pipeExc' = "none"
          ELSE /\ pipePc' = "raised"
               /\ pipeExc' = r.exc
               /\ UNCHANGED <<pipeX, pipeRan>>
    /\ UNCHANGED <<regVars, optVars, thr>>

\* apply_optimizer: the three with-blocks, then return x
PipeDesugar ==
    /\ pipePc = "Desugar"
    /\ EvalUnder("Desugar", "Deoptimize")

PipeDeoptimize ==
    /\ pipePc = "Deoptimize"
    /\ EvalUnder("Deoptimize", "Optimize")

PipeOptimize ==
    /\ pipePc = "Optimize"
    /\ EvalUnder("Optimize", "done")

\* the Desugar block on its own, run a second time on its own result
DesugarPass ==
    /\ pipePc = "Desugar"
    /\ Len(pipeRan) < 2
    /\ EvalUnder("Desugar", "Desugar")

----------------------------------------------------------------------------

\* no apply_optimizer call is under way
PipeIdle ==
    /\ pipePc = "idle"
    /\ pipeX = NoTerm
    /\ pipeExc = "none"
    /\ pipeRan = << >>

Init ==
    /\ cls \in {"UnaryRegistry", "BinaryRegistry"}
    /\ registry = Empty
    /\ cache = Empty
    /\ seen = Empty
    /\ out = [op |-> "init", key |-> "none", args |-> << >>, fn |-> "none",
              exc |-> "none", named |-> << >>, hit |-> FALSE,
              prev |-> "none", dropped |-> Empty]
    /\ optPc = "idle"
    /\ optArgs = [op |-> "none", arg |-> NoTerm, reduce_dims |-> {}]
    /\ optRet = [exc |-> "none", value |-> NoTerm]
    /\ PipeIdle
    /\ thr = [t \in Threads |-> IdleThread]

\* a call optimize_path(op, arg, reduce_dims), reduce_dims among arg's free dims
InitOpt ==
    /\ cls = "UnaryRegistry"
    /\ registry = Empty
    /\ cache = Empty
    /\ seen = Empty
    /\ out = [op |-> "init", key |-> "none", args |-> << >>, fn |-> "none",
              exc |-> "none", named |-> << >>, hit |-> FALSE,
              prev |-> "none", dropped |-> Empty]
    /\ optPc = "call"
    /\ \E op \in Ops, arg \in ArgChoices :
          \E rd \in SUBSET arg.dims :
              optArgs = [op |-> op, arg |-> arg, reduce_dims |-> rd]
    /\ optRet = [exc |-> "none", value |-> NoTerm]
    /\ PipeIdle
    /\ thr = [t \in Threads |-> IdleThread]

\* a call apply_optimizer(x)
InitPipe ==
    /\ cls = "UnaryRegistry"
    /\ registry = Empty
    /\ cache = Empty
    /\ seen = Empty
    /\ out = [op |-> "init", key |-> "none", args |-> << >>, fn |-> "none",
              exc |-> "none", named |-> << >>, hit |-> FALSE,
              prev |-> "none", dropped |-> Empty]
    /\ optPc = "idle"
    /\ optArgs = [op |-> "none", arg |-> NoTerm, reduce_dims |-> {}]
    /\ optRet = [exc |-> "none", value |-> NoTerm]
    /\ pipePc = "Desugar"
    /\ pipeX \in PipeTrees
    /\ pipeExc = "none"
    /\ pipeRan = << >>
    /\ thr = [t \in Threads |-> IdleThread]

NextPipe ==
    \/ PipeDesugar
    \/ PipeDeoptimize
    \/ PipeOptimize

SpecPipe == InitPipe /\ [][NextPipe]_vars

NextDesugar == DesugarPass

SpecDesugar == InitPipe /\ [][NextDesugar]_vars

NextOpt ==
    \/ OptimizeReflect
    \/ OptimizeBuild

SpecOpt == InitOpt /\ [][NextOpt]_vars

NextRace ==
    \/ RaceBeginRegister
    \/ RaceWrite
    \/ RaceClear
    \/ RaceBeginCall
    \/ RaceLookup
    \/ RaceResolve
    \/ RaceStore

\* the threads start on a registry just constructed
SpecRace == Init /\ [][NextRace]_vars

\* a BinaryRegistry whose caller registers what the ambiguity errors ask for
InitNamed ==
    /\ Init
    /\ cls = "BinaryRegistry"

NextNamed ==
    \/ BinaryRegister
    \/ BinaryCall
    \/ RegisterNamed

SpecNamed == InitNamed /\ [][NextNamed]_vars

Next ==
    \/ UnaryRegister
    \/ UnaryCall
    \/ BinaryRegister
    \/ BinaryCall

Spec == Init /\ [][Next]_vars

----------------------------------------------------------------------------
(* Properties of the registries *)

IsUnaryCall == cls = "UnaryRegistry" /\ out.op = "call"
IsBinaryCall == cls = "BinaryRegistry" /\ out.op = "call"

\* the classes of c's ancestor chain that come before s
Nearer(c, s) == {t \in DOMAIN ranks[c] : ranks[c][t] < ranks[c][s]}

\* the registered pairs that apply to operands of classes c1, c2
Candidates(r, c1, c2) ==
    {m \in DOMAIN r : m[1] \in DOMAIN ranks[c1] /\ m[2] \in DOMAIN ranks[c2]}

\* the candidate that is least by (left rank, right rank), by (right rank, left rank)
LeftFirst(ms, c1, c2) ==
    CHOOSE m \in ms : \A n \in ms \ {m} :
        \/ ranks[c1][m[1]] < ranks[c1][n[1]]
        \/ ranks[c1][m[1]] = ranks[c1][n[1]] /\ ranks[c2][m[2]] < ranks[c2][n[2]]
RightFirst(ms, c1, c2) ==
    CHOOSE m \in ms : \A n \in ms \ {m} :
        \/ ranks[c2][m[2]] < ranks[c2][n[2]]
        \/ ranks[c2][m[2]] = ranks[c2][n[2]] /\ ranks[c1][m[1]] < ranks[c1][n[1]]

\* the operation's table and the cache key of the call that `out` records
Table == Lookup(registry, out.key)
CallKey(o) == <<o.key>> \o o.args

(* C1: a single dispatch calls the handler registered for the first class of the
   operand's ancestor chain (the class itself first) that has a handler for the
   operation; with handlers at Base and Mid only, a Leaf operand gets Mid's. *)
C1_NearestAncestor ==
    IsUnaryCall =>
        \A s \in DOMAIN ranks[out.args[1]] :
            (s \in DOMAIN Table /\ \A t \in Nearer(out.args[1], s) : t \notin DOMAIN Table)
                => (out.exc = "none" /\ out.fn = Table[s])

C1_Witness ==
    /\ IsUnaryCall
    /\ out.args = <<"Leaf">>
    /\ DOMAIN Table = {"Base", "Mid"}
    /\ Table["Base"] # Table["Mid"]
    /\ out.fn = Table["Mid"]

(* C2: for every operation and operand pair with a candidate, a dual dispatch
   raises the ambiguity error (ValueError) and calls no handler when the
   left-first and the right-first best candidates differ, and calls the handler
   of the common best candidate when they agree. *)
C2_AmbiguityErrorOrBest ==
    IsBinaryCall =>
        LET ms == Candidates(Table, out.args[1], out.args[2])
        IN  ms # {} =>
              IF LeftFirst(ms, out.args[1], out.args[2]) # RightFirst(ms, out.args[1], out.args[2])
              THEN out.exc = "ValueError" /\ out.fn = "none"
              ELSE out.exc = "none" /\ out.fn = Table[LeftFirst(ms, out.args[1], out.args[2])]

\* the scenario of C3: handlers for (A, B) and (B, A), A = Base and B = Other
\* unrelated, and a dispatch on an A instance and a B instance
CrossedPairCall ==
    /\ IsBinaryCall
    /\ out.args = <<"Base", "Other">>
    /\ {<<"Base", "Other">>, <<"Other", "Base">>} \subseteq DOMAIN Table

(* C3, as stated: with handlers for (OpX, A, B) and (OpX, B, A), A and B
   unrelated, the dispatch (OpX, a, b) raises the ambiguity error and calls
   neither handler. *)
C3_CrossedPairRaises == CrossedPairCall => (out.exc = "ValueError" /\ out.fn = "none")

(* C3, amended: with handlers for (OpX, A, B) and (OpX, B, A), A and B
   unrelated, the dispatch (OpX, a, b) raises no error and calls the (A, B)
   handler: (B, A) is no candidate, B being no ancestor of A. *)
C3_CrossedPairCallsExact ==
    CrossedPairCall => (out.exc = "none" /\ out.fn = Table[<<"Base", "Other">>])

C3_Witness ==
    /\ CrossedPairCall
    /\ Table[<<"Base", "Other">>] # Table[<<"Other", "Base">>]
    /\ out.fn = Table[<<"Base", "Other">>]

(* C4: when a handler is registered for exactly (operation, type of the left
   operand, type of the right operand), the dual dispatch raises no ambiguity
   error and calls that handler, whatever is registered for ancestor pairs. *)
C4_ExactPairWins ==
    (IsBinaryCall /\ out.args \in DOMAIN Table) =>
        (out.exc = "none" /\ out.fn = Table[out.args])

C4_Witness ==
    /\ IsBinaryCall
    /\ out.args \in DOMAIN Table
    /\ \E m \in Candidates(Table, out.args[1], out.args[2]) :
          m # out.args /\ Table[m] # Table[out.args]
    /\ out.fn = Table[out.args]

(* C5: a dispatch with no applicable handler raises NotImplementedError and
   calls no handler, in the unary registry (no class of the operand's chain has
   a handler) and in the binary one (no registered pair applies), on the first
   call and on every repeated (cached) call. *)
C5_NotFound ==
    /\ (IsUnaryCall /\ \A s \in DOMAIN ranks[out.args[1]] : s \notin DOMAIN Table)
          => (out.exc = "NotImplementedError" /\ out.fn = "none")
    /\ (IsBinaryCall /\ Candidates(Table, out.args[1], out.args[2]) = {})
          => (out.exc = "NotImplementedError" /\ out.fn = "none")

C5_Witness ==
    /\ IsUnaryCall
    /\ out.hit
    /\ Table # Empty
    /\ \A s \in DOMAIN ranks[out.args[1]] : s \notin DOMAIN Table
    /\ out.exc = "NotImplementedError"

(* C6: between two consecutive registrations, all the calls with the same
   operation and operand type(s) have the same outcome: the same handler
   called, or the same exception, from the cache or resolved afresh. *)
C6_Deterministic == \A ck \in DOMAIN seen : Cardinality(seen[ck]) = 1

C6_Witness ==
    /\ out.op = "call"
    /\ out.hit
    /\ out.fn \in Handlers
    /\ seen[CallKey(out)] = {[fn |-> out.fn, exc |-> "none"]}

\* the entry a register call writes: the class (unary) or the class pair (binary)
Entry(o) == IF cls = "UnaryRegistry" THEN o.args[1] ELSE o.args

\* what a fresh resolution on table `reg` gives for the call that `o` records
Fresh(reg, o) ==
    IF cls = "UnaryRegistry"
    THEN Outcome(UnaryDispatch(reg, o.key, o.args[1])).fn
    ELSE LET d == BinaryDispatch(reg, o.key, o.args[1], o.args[2])
         IN  IF d.exc # "none" THEN "none" ELSE Outcome(d.fn).fn

(* C7: registering a handler for a key that already has one replaces it and
   leaves every other key's handler as it was; every later dispatch calls the
   handler the current table resolves to, also when the operand types had a
   cached resolution before the registration. *)
C7_LastRegistrationWins ==
    [][ /\ out'.op = "register" =>
            /\ registry'[out'.key][Entry(out')] = out'.fn
            /\ \A k \in DOMAIN registry : \A a \in DOMAIN registry[k] :
                  (k # out'.key \/ a # Entry(out')) =>
                      /\ k \in DOMAIN registry'
                      /\ a \in DOMAIN registry'[k]
                      /\ registry'[k][a] = registry[k][a]
            /\ NumHandlers(registry') =
                  NumHandlers(registry) + (IF out'.prev = "none" THEN 1 ELSE 0)
        /\ (out'.op = "call" /\ out'.exc = "none") => out'.fn = Fresh(registry', out')
      ]_vars

C7_Witness ==
    /\ out.op = "register"
    /\ out.prev \in Handlers \ {out.fn}
    /\ registry[out.key][Entry(out)] = out.fn
    /\ \E ck \in DOMAIN out.dropped : out.dropped[ck] = out.prev

(* C8: every registration empties the cache; between registrations a dispatch
   may add the entry of its own (operation, operand types) and never changes
   or removes an entry. *)
C8_CacheLifecycle ==
    [][ /\ out'.op = "register" => cache' = Empty
        /\ out'.op = "call" =>
            /\ \A ck \in DOMAIN cache : ck \in DOMAIN cache' /\ cache'[ck] = cache[ck]
            /\ (DOMAIN cache') \ (DOMAIN cache) \subseteq {CallKey(out')}
      ]_vars

C8_Witness ==
    /\ out.op = "register"
    /\ Cardinality(DOMAIN out.dropped) >= 2
    /\ cache = Empty

(* C9: when a dual dispatch on a pair succeeded and was cached, and the next
   registration makes the left-first and right-first best candidates of that
   pair differ, the next dispatch on the pair raises the ambiguity error
   (ValueError) and does not return the cached handler. *)
C9_LaterAmbiguityRaises ==
    [][ ( /\ cls = "BinaryRegistry"
          /\ out.op = "register"
          /\ out'.op = "call"
          /\ CallKey(out') \in DOMAIN out.dropped
          /\ out.dropped[CallKey(out')] \in Handlers
          /\ LET ms == Candidates(Lookup(registry, out'.key), out'.args[1], out'.args[2])
             IN  /\ ms # {}
                 /\ LeftFirst(ms, out'.args[1], out'.args[2])
                      # RightFirst(ms, out'.args[1], out'.args[2]) )
        => (out'.exc = "ValueError" /\ out'.fn = "none")
      ]_vars

----------------------------------------------------------------------------
(* Properties of the optimizer *)

\* how many Reduction nodes of tree t reduce dimension d
RECURSIVE TimesReduced(_, _)
TimesReduced(t, d) ==
    IF t.type = "Reduction"
    THEN (IF d \in t.reduce_dims THEN 1 ELSE 0) + TimesReduced(t.operands[1], d)
    ELSE IF t.type = "Finitary"
    THEN LET RECURSIVE Sum(_)
             Sum(i) == IF i = 0 THEN 0 ELSE TimesReduced(t.operands[i], d) + Sum(i - 1)
         IN  Sum(Len(t.operands))
    ELSE 0

(* C10: for every Reduction over a Finitary product, optimize_path returns a
   nested tree in which every dimension of reduce_dims is reduced exactly once
   and no other dimension is reduced. *)
C10_ReducesEachDimOnce ==
    (optPc = "done" /\ optArgs.arg.type = "Finitary") =>
        /\ optRet.exc = "none"
        /\ optRet.value.type = "Reduction"
        /\ \A d \in Dims :
              TimesReduced(optRet.value, d) = (IF d \in optArgs.reduce_dims THEN 1 ELSE 0)

\* the dimensions the tensors of tree t mention
RECURSIVE Mentioned(_)
Mentioned(t) ==
    IF t.type = "Tensor" THEN t.dims
    ELSE UNION {Mentioned(t.operands[i]) : i \in DOMAIN t.operands}

\* no Reduction node of t reduces a dimension of `rest`, the output dimensions
\* and those mentioned by the operands outside the node
RECURSIVE NoPremature(_, _)
NoPremature(t, rest) ==
    CASE t.type = "Reduction" ->
            /\ t.reduce_dims \cap rest = {}
            /\ NoPremature(t.operands[1], rest)
      [] t.type = "Finitary" ->
            \A i \in DOMAIN t.operands :
                NoPremature(t.operands[i],
                    rest \cup UNION {Mentioned(t.operands[j]) : j \in DOMAIN t.operands \ {i}})
      [] OTHER -> TRUE

(* C11: no premature reduction -- for a Reduction over a Finitary product,
   optimize_path returns a tree in which each pairwise step drops a dimension
   only if no operand outside the step mentions it and it is no output
   dimension; the result's free dimensions are the product's without
   reduce_dims. *)
C11_NoPrematureReduction ==
    (optPc = "done" /\ optArgs.arg.type = "Finitary") =>
        /\ optRet.exc = "none"
        /\ optRet.value.type = "Reduction"
        /\ optRet.value.dims = optArgs.arg.dims \ optArgs.reduce_dims
        /\ NoPremature(optRet.value, optArgs.arg.dims \ optArgs.reduce_dims)

\* the nodes of tree t
RECURSIVE Nodes(_)
Nodes(t) == {t} \cup UNION {Nodes(t.operands[i]) : i \in DOMAIN t.operands}

\* the pairs of tensors that a Finitary node of t combines directly
TensorPairs(t) ==
    {{n.operands[i] : i \in DOMAIN n.operands} :
        n \in {m \in Nodes(t) : /\ m.type = "Finitary"
                                /\ \A i \in DOMAIN m.operands : m.operands[i].type = "Tensor"}}

(* C12: optimize_path on the sum over {b, c} of the product X{a,b} * Y{b,c} *
   Z{c,d} returns a tree that combines X and Y first and whose free
   dimensions are {a, d}. *)
C12_ChainCombinesXYFirst ==
    ( /\ optPc = "done"
      /\ optArgs = [op |-> "add", arg |-> ChainProduct, reduce_dims |-> {"b", "c"}] ) =>
        /\ optRet.exc = "none"
        /\ optRet.value.dims = {"a", "d"}
        /\ TensorPairs(optRet.value) = {{ChainX, ChainY}}

(* C13: optimize_path on a Reduction whose argument is no Finitary returns a
   Reduction with the same operator, the same argument and the same
   reduce_dims, and nothing else is built. *)
C13_ReflectsNonFinitary ==
    (optPc = "done" /\ optArgs.arg.type # "Finitary") =>
        /\ optRet.exc = "none"
        /\ optRet.value.type = "Reduction"
        /\ optRet.value.op = optArgs.op
        /\ optRet.value.operands = <<optArgs.arg>>
        /\ optRet.value.reduce_dims = optArgs.reduce_dims

C13_Witness ==
    /\ optPc = "done"
    /\ optArgs.arg.type = "Tensor"
    /\ optArgs.reduce_dims # {}
    /\ optRet.value.type = "Reduction"
    /\ optRet.value.dims = optArgs.arg.dims \ optArgs.reduce_dims

----------------------------------------------------------------------------
(* Properties of the rewrite passes *)

\* the names of the passes whose with-block has completed, in order
PassesRan == [i \in DOMAIN pipeRan |-> pipeRan[i].pass]

(* C14: apply_optimizer runs Desugar, then Deoptimize, then Optimize, each on
   the whole tree the pass before it produced, and what it returns is the
   output of the Optimize pass. *)
C14_PipelineOrder ==
    (pipePc \in {"done", "raised"}) =>
        /\ pipePc = "done"
        /\ PassesRan = Passes
        /\ \A i \in 2..Len(pipeRan) : pipeRan[i].arg = pipeRan[i - 1].value
        /\ pipeX = pipeRan[Len(pipeRan)].value

\* the tensors at the leaves of tree t
Tensors(t) == {n \in Nodes(t) : n.type = "Tensor"}

\* no Finitary node of t has a Finitary operand with its operator, and no
\* Reduction node a Reduction argument with its operator
NoAdjacent(t) ==
    \A n \in Nodes(t) : \A i \in DOMAIN n.operands :
        ~ ( /\ n.type \in {"Finitary", "Reduction"}
            /\ n.operands[i].type = n.type
            /\ n.operands[i].op = n.op )

(* C15: the Deoptimize pass ends with a tree over the same tensors in which
   no parent and child Finitary nodes, and no parent and child Reduction
   nodes, have the same operator: all such pairs have been merged. *)
C15_DeoptimizeMerged ==
    (pipePc \in {"Optimize", "done", "raised"}) =>
        /\ Len(pipeRan) >= 2
        /\ pipeRan[2].pass = "Deoptimize"
        /\ Tensors(pipeRan[2].value) = Tensors(pipeRan[2].arg)
        /\ NoAdjacent(pipeRan[2].value)

(* C16: the Desugar pass turns a Binary node (op, lhs, rhs) into a Finitary of
   the same operator over [lhs, rhs] and a Unary node (op, arg) into a
   Finitary of the same operator over [arg] -- the operands (each rewritten
   itself) in their order, one or two of them. *)
C16_DesugarCanonical ==
    (Len(pipeRan) >= 1 /\ pipeRan[1].arg.type \in {"Unary", "Binary"}) =>
        LET node == pipeRan[1].arg
            res == pipeRan[1].value
        IN  /\ pipeRan[1].pass = "Desugar"
            /\ res.type = "Finitary"
            /\ res.op = node.op
            /\ Len(res.operands) = (IF node.type = "Binary" THEN 2 ELSE 1)
            /\ \A i \in DOMAIN node.operands :
                  res.operands[i] = Rewrite("Desugar", node.operands[i]).value

C16_Witness ==
    /\ Len(pipeRan) >= 1
    /\ pipeRan[1].arg = Binary("add", Tensor({"a", "b"}), Tensor({"b", "c"}))
    /\ pipeRan[1].value = Finitary("add", <<Tensor({"a", "b"}), Tensor({"b", "c"})>>)

(* C17: the Desugar pass applied to its own output gives that output again. *)
C17_DesugarIdempotent ==
    (Len(pipeRan) = 2 /\ PassesRan = <<"Desugar", "Desugar">>) =>
        /\ pipeRan[2].arg = pipeRan[1].value
        /\ pipeRan[2].value = pipeRan[1].value

C17_Witness ==
    /\ Len(pipeRan) = 2
    /\ PassesRan = <<"Desugar", "Desugar">>
    /\ pipeRan[1].arg.type = "Binary"
    /\ pipeRan[1].arg.operands[1].type = "Unary"
    /\ pipeRan[1].value # pipeRan[1].arg
    /\ pipeRan[2].value = pipeRan[1].value

\* how many pairwise merges tree t holds: its Finitary nodes of two operands
RECURSIVE Merges(_)
Merges(t) ==
    LET RECURSIVE Sum(_)
        Sum(i) == IF i = 0 THEN 0 ELSE Merges(t.operands[i]) + Sum(i - 1)
    IN  (IF t.type = "Finitary" /\ Len(t.operands) = 2 THEN 1 ELSE 0) + Sum(Len(t.operands))

(* C18: for a Reduction over a Finitary of n >= 2 operands the path loop of
   optimize_path makes exactly n - 1 pairwise merges and ends with one
   operand, which is returned. *)
C18_PathLoopMerges ==
    (optPc = "done" /\ optArgs.arg.type = "Finitary" /\ Len(optArgs.arg.operands) >= 2) =>
        /\ optRet.exc = "none"
        /\ optRet.value.type # "None"
        /\ Merges(optRet.value) = Len(optArgs.arg.operands) - 1

----------------------------------------------------------------------------
(* Properties of the registries under concurrent use *)

(* C19: whatever the interleaving of the steps of concurrent register and
   __call__ calls, once every call has completed each cache entry is the
   resolution that the handler table gives for it. *)
C19_CacheCoherentWhenQuiet ==
    (\A t \in Threads : thr[t].pc = "idle") =>
        \A key \in RaceKeys, args \in RaceCallArgs :
            CacheKey(key, args) \in DOMAIN cache =>
                /\ Dispatch(registry, key, args).exc = "none"
                /\ cache[CacheKey(key, args)] = Dispatch(registry, key, args).fn

----------------------------------------------------------------------------
(* Dual dispatch *)

\* the candidates that are nearest on the left and nearest on the right at once
Dominating(ms, c1, c2) ==
    {m \in ms : \A n \in ms : /\ ranks[c1][m[1]] <= ranks[c1][n[1]]
                              /\ ranks[c2][m[2]] <= ranks[c2][n[2]]}

(* C20: a BinaryRegistry dispatch calls a handler exactly when some candidate
   is nearest on both sides at once, and then that candidate's handler; it
   raises the ambiguity error (ValueError) exactly when there are candidates
   and none of them is nearest on both sides. *)
C20_DominatingIffSucceeds ==
    IsBinaryCall =>
        LET ms == Candidates(Table, out.args[1], out.args[2])
            dom == Dominating(ms, out.args[1], out.args[2])
        IN  /\ (out.fn \in Handlers) <=> (dom # {})
            /\ \A m \in dom : out.fn = Table[m]
            /\ (out.exc = "ValueError") <=> (ms # {} /\ dom = {})

\* dict d without key k
Without(d, k) == [x \in (DOMAIN d) \ {k} |-> d[x]]

\* the registry as it was before the registration that `o` records added its pair
BeforeAdded(reg, o) == Put(reg, o.key, Without(Lookup(reg, o.key), o.args))

(* C21: when a dispatch on operands (x, y) raises the ambiguity error, it
   names a pair; once a handler is registered for that pair under the same
   key, the next dispatch on the same operands raises nothing and calls that
   handler. *)
C21_NamedPairResolves ==
    [][ ( /\ cls = "BinaryRegistry"
          /\ out.op = "register"
          /\ out.prev = "none"
          /\ out'.op = "call"
          /\ out'.key = out.key
          /\ LET d == BinaryDispatch(BeforeAdded(registry, out), out.key,
                                     out'.args[1], out'.args[2])
             IN  /\ d.exc = "ValueError"
                 /\ d.named = <<out.args[1], out.args[2], out.key>> )
        => (out'.exc = "none" /\ out'.fn = out.fn)
      ]_vars

C21_Witness ==
    /\ IsBinaryCall
    /\ out.fn \in Handlers
    /\ NumHandlers(registry) = MaxHandlers + 1
    /\ \E p \in DOMAIN Table :
          LET d == BinaryDispatch(Put(registry, out.key, Without(Table, p)), out.key,
                                  out.args[1], out.args[2])
          IN  /\ d.exc = "ValueError"
              /\ d.named = <<p[1], p[2], out.key>>
              /\ \A q \in DOMAIN Table \ {p} : Table[q] # Table[p]
              /\ out.fn = Table[p]

(* C22: a BinaryRegistry dispatch that raises the ambiguity error calls no
   handler and leaves the cache and the dispatch table as they were, and the
   same call made again right after it raises the ambiguity error again. *)
C22_AmbiguousLeavesState ==
    [][ /\ ( /\ cls = "BinaryRegistry"
             /\ out'.op = "call"
             /\ out'.exc = "ValueError" )
           => ( /\ out'.fn = "none"
                /\ cache' = cache
                /\ CallKey(out') \notin DOMAIN cache'
                /\ registry' = registry )
        /\ ( /\ cls = "BinaryRegistry"
             /\ out.op = "call"
             /\ out.exc = "ValueError"
             /\ out'.op = "call"
             /\ out'.key = out.key
             /\ out'.args = out.args )
           => ( /\ out'.exc = "ValueError"
                /\ out'.fn = "none"
                /\ out'.named = out.named )
      ]_vars

C22_Witness ==
    /\ IsBinaryCall
    /\ out.exc = "ValueError"
    /\ out.fn = "none"
    /\ ~out.hit
    /\ cache # Empty
    /\ CallKey(out) \notin DOMAIN cache
    /\ seen[CallKey(out)] = {[fn |-> "none", exc |-> "ValueError"]}

\* what a dispatch of key on operands of classes args works with, given table and cache
Resolution(reg, ch, key, args) ==
    IF cls = "UnaryRegistry"
    THEN [fn |-> UnaryResolve(reg, ch, key, args[1]), exc |-> "none", named |-> << >>]
    ELSE BinaryResolve(reg, ch, key, args[1], args[2])

(* C23: a registration under one key changes, for no other key and no operand
   classes, the handler or the failure that a dispatch resolves to -- although
   it clears the cached resolutions of every key: the other keys' tables stay
   as they were, and each cached resolution of another key that is discarded
   is what the table resolves to afresh. *)
C23_KeysIndependent ==
    [][ out'.op = "register" =>
            /\ cache' = Empty
            /\ \A k \in Keys \ {out'.key} : Lookup(registry', k) = Lookup(registry, k)
            /\ \A ck \in DOMAIN cache :
                  ck[1] # out'.key =>
                      Resolution(registry', cache', ck[1], SubSeq(ck, 2, Len(ck)))
                          = [fn |-> cache[ck], exc |-> "none", named |-> << >>]
      ]_vars

C23_Witness ==
    /\ out.op = "register"
    /\ cache = Empty
    /\ \E ck \in DOMAIN out.dropped :
          /\ ck[1] # out.key
          /\ out.dropped[ck] \in Handlers
          /\ Resolution(registry, cache, ck[1], SubSeq(ck, 2, Len(ck))).fn = out.dropped[ck]

----------------------------------------------------------------------------
(* The optimizer on a product of one operand *)

(* C24: optimize_path on a Reduction over a Finitary of exactly one operand
   returns a tree whose free dimensions are the operand's without
   reduce_dims: it neither fails nor returns the operand unreduced. *)
C24_SingleOperandReduced ==
    (optPc = "done" /\ optArgs.arg.type = "Finitary" /\ Len(optArgs.arg.operands) = 1) =>
        /\ optRet.exc = "none"
        /\ optRet.value.type # "None"
        /\ optRet.value.dims = optArgs.arg.operands[1].dims \ optArgs.reduce_dims

====
